---- MODULE Spec2Model ----
(***************************************************************************)
(* A model of rss_checker_redux: the per-feed unit                         *)
(* (read cache -> fetch -> diff -> write cache), the parallel fan-out over *)
(* the configured feeds and the aggregation done by main.                  *)
(*                                                                         *)
(* The file system, the network and the thread scheduler are the           *)
(* environment: every I/O call takes its outcome from a small set.         *)
(***************************************************************************)
EXTENDS Integers, Sequences, FiniteSets, TLC

----------------------------------------------------------------------------
(* Bounds *)

\* number of distinct absolute URLs an item link can parse to
NumUrls == 3
\* raw link strings are 0..NumRaw; 0 does not parse as an absolute URL
NumRaw == 4
\* items of an RSS channel in the single-unit specification
MaxItems == 2
\* entries of an Atom feed, and link elements of one entry
MaxEntries == 1
MaxEntryLinks == 2
\* URLs the documents of the pipeline specification can link to
MaxPipeUrls == 2
\* invocations of the program in one behaviour
MaxRuns == 2
\* size of the worker pool
NumThreads == 2
\* entries of the config directory in the config-loader specification
MaxDirEntries == 3

----------------------------------------------------------------------------
(* Generic helpers *)

SeqsUpTo(S, n) == UNION {[1..k -> S] : k \in 0..n}

Range(s) == {s[i] : i \in 1..Len(s)}

RECURSIVE Flatten(_)
Flatten(ss) == IF ss = <<>> THEN <<>> ELSE Head(ss) \o Flatten(Tail(ss))

\* every sequence that lists the elements of S once each, in some order
RECURSIVE Perms(_)
Perms(S) ==
    IF S = {} THEN {<<>>}
    ELSE UNION {{<<x>> \o p : p \in Perms(S \ {x})} : x \in S}

\* strings are sequences of character codes; the order of str / String
RECURSIVE LexLess(_, _)
LexLess(s, t) ==
    IF t = <<>> THEN FALSE
    ELSE IF s = <<>> THEN TRUE
    ELSE IF Head(s) # Head(t) THEN Head(s) < Head(t)
    ELSE LexLess(Tail(s), Tail(t))

----------------------------------------------------------------------------
(* URLs and feed documents *)

\* Url::parse on an item link: None for a string that is no absolute URL,
\* otherwise the normalised URL (two spellings can name the same URL)
Url_parse(raw) == IF raw = 0 THEN 0 ELSE ((raw - 1) % NumUrls) + 1

\* Url::to_string: the text of a parsed URL
Url_to_string(u) == IF u % 2 = 1 THEN <<1, u>> ELSE <<u>>

\* filter_map(|link| Url::parse(link).ok()) over a list of link strings
RECURSIVE parse_links(_)
parse_links(raws) ==
    IF raws = <<>> THEN <<>>
    ELSE IF Url_parse(Head(raws)) = 0 THEN parse_links(Tail(raws))
    ELSE <<Url_parse(Head(raws))>> \o parse_links(Tail(raws))

\* a document is [kind, items]: an RSS item carries at most one link (<<>> or
\* <<raw>>), an Atom entry carries a list of links
NoDoc == [kind |-> "none", items |-> <<>>]

\* LinkProduceable for rss::Channel
channel_get_links(channel) == parse_links(Flatten(channel.items))
\* LinkProduceable for atom_syndication::Feed
feed_get_links(feed) == parse_links(Flatten(feed.items))
\* LinkProduceable for RssOrAtomFeed
get_links(doc) ==
    IF doc.kind = "Rss2" THEN channel_get_links(doc)
    ELSE IF doc.kind = "Atom" THEN feed_get_links(doc)
    ELSE <<>>

----------------------------------------------------------------------------
(* Serialised documents: the bytes of a cache file or of an HTTP body *)

NoBytes == [root |-> "", items |-> <<>>]
Garbage == [root |-> "html", items |-> <<>>]

\* Channel::write_to / Feed::write_to
\* (faulty variant: the items are not serialised)
write_to_drops_items(doc) ==
    [root |-> IF doc.kind = "Rss2" THEN "rss" ELSE "feed", items |-> <<>>]
write_to(doc) ==
    [root |-> IF doc.kind = "Rss2" THEN "rss" ELSE "feed", items |-> doc.items]

\* Channel::read_from: Ok only for a document whose root element is <rss>
Channel_read_from(bytes) ==
    IF bytes.root = "rss"
    THEN [ok |-> TRUE, doc |-> [kind |-> "Rss2", items |-> bytes.items]]
    ELSE [ok |-> FALSE, doc |-> NoDoc]

\* Feed::read_from: Ok only for a document whose root element is <feed>
Feed_read_from(bytes) ==
    IF bytes.root = "feed"
    THEN [ok |-> TRUE, doc |-> [kind |-> "Atom", items |-> bytes.items]]
    ELSE [ok |-> FALSE, doc |-> NoDoc]

\* a file of the cache directory
Absent == [present |-> FALSE, data |-> NoBytes]
File(bytes) == [present |-> TRUE, data |-> bytes]
Truncated == File(NoBytes)

\* Result<RssOrAtomFeed, Error>
OkDoc(d) == [ok |-> TRUE, err |-> "", doc |-> d]
ErrDoc(e) == [ok |-> FALSE, err |-> e, doc |-> NoDoc]

----------------------------------------------------------------------------
(* FeedCacheStore and FeedFetcher *)

\* outcomes the file system can give to one cache read / one cache write
ReadIo == {"ok", "denied"}
WriteIo == {"ok", "open_fails", "write_fails"}

\* cache_path.join(feed_name): the cache directory is flat, a file of it is
\* named by its file name
\* (faulty variant: every feed is cached in the same file)
cache_file_path_shared(feed_name) == "a"
cache_file_path(feed_name) == feed_name

\* the closure returned by load_cached_feed_from_disk, applied to the file
\* at cache_path/feed_name
load_cached_feed_from_disk(file, io) ==
    IF io = "denied" THEN ErrDoc("IoErr.Other")
    ELSE IF ~file.present THEN ErrDoc("IoErr.NotFound")
    ELSE LET channel_load_result == Channel_read_from(file.data)
             feed_load_result == Feed_read_from(file.data)
         IN  IF channel_load_result.ok /\ ~feed_load_result.ok
             THEN OkDoc(channel_load_result.doc)
             ELSE IF ~channel_load_result.ok /\ feed_load_result.ok
             THEN OkDoc(feed_load_result.doc)
             ELSE ErrDoc("InvalidCache")

\* the closure returned by cache_feed_to_disk: the file afterwards and the
\* Result. The file is truncated by the open, before anything is written.
\* (faulty variant: an existing file is not overwritten)
cache_feed_to_disk_keeps_existing(file, feed, io) ==
    IF io = "open_fails" THEN [file |-> file, ok |-> FALSE, err |-> "IoErr.Other"]
    ELSE IF io = "write_fails"
    THEN [file |-> Truncated, ok |-> FALSE,
          err |-> IF feed.kind = "Rss2" THEN "RssErr" ELSE "AtomErr"]
    ELSE [file |-> IF file.present THEN file ELSE File(write_to(feed)),
          ok |-> TRUE, err |-> ""]
cache_feed_to_disk(file, feed, io) ==
    IF io = "open_fails" THEN [file |-> file, ok |-> FALSE, err |-> "IoErr.Other"]
    ELSE IF io = "write_fails"
    THEN [file |-> Truncated, ok |-> FALSE,
          err |-> IF feed.kind = "Rss2" THEN "RssErr" ELSE "AtomErr"]
    ELSE [file |-> File(write_to(feed)), ok |-> TRUE, err |-> ""]

\* an HTTP exchange: the transport fails, or a body arrives, or the call
\* never returns
Down == [up |-> FALSE, body |-> NoBytes]
Never == [up |-> FALSE, body |-> [root |-> "pending", items |-> <<>>]]
Resp(bytes) == [up |-> TRUE, body |-> bytes]

get_feed_with_blocking_http_request(resp) ==
    IF ~resp.up THEN ErrDoc("ReqwestErr")
    ELSE LET maybe_channel == Channel_read_from(resp.body)
             maybe_feed == Feed_read_from(resp.body)
         IN  IF maybe_channel.ok /\ ~maybe_feed.ok THEN OkDoc(maybe_channel.doc)
             ELSE IF ~maybe_channel.ok /\ maybe_feed.ok THEN OkDoc(maybe_feed.doc)
             ELSE ErrDoc("FeedIsNeitherAtomOrRss")

----------------------------------------------------------------------------
(* DiffEngine: the body of get_and_cache_new_items_from_feed *)

\* HashSet::difference
\* (faulty variant: the cached links are not removed)
difference_drops_nothing(new_item_links, cached_item_links) == new_item_links
difference(new_item_links, cached_item_links) ==
    new_item_links \ cached_item_links

\* the links of new_feed that cached_feed does not have, as strings
new_links(cached_feed, new_feed) ==
    LET cached_item_links == Range(get_links(cached_feed))
        new_item_links == Range(get_links(new_feed))
    IN  {Url_to_string(link) : link \in difference(new_item_links, cached_item_links)}

\* the link strings a unit returns: the difference when a cached document
\* was read, nothing on the first run of a feed
\* (faulty variant: the first run of a feed reports every link)
unit_links_reports_first_run(hit, cached_feed, new_feed) ==
    IF hit THEN new_links(cached_feed, new_feed) ELSE new_links(NoDoc, new_feed)
unit_links(hit, cached_feed, new_feed) ==
    IF hit THEN new_links(cached_feed, new_feed) ELSE {}

\* Result<Vec<String>, Error>
UnitOk(links) == [ok |-> TRUE, err |-> "", links |-> links]
UnitErr(e) == [ok |-> FALSE, err |-> e, links |-> <<>>]
NoResult == [ok |-> FALSE, err |-> "", links |-> <<>>]

----------------------------------------------------------------------------
(* ConfigLoader: walker.rs *)

\* the text of a config file is a sequence of characters, " " is whitespace
RECURSIVE trim_start(_)
trim_start(s) ==
    IF s # <<>> /\ Head(s) = " " THEN trim_start(Tail(s)) ELSE s
RECURSIVE trim_end(_)
trim_end(s) ==
    IF s # <<>> /\ s[Len(s)] = " " THEN trim_end(SubSeq(s, 1, Len(s) - 1)) ELSE s
trim(s) == trim_end(trim_start(s))

\* Url::parse on the text of a config file: an absolute URL starts with its
\* scheme and holds no whitespace
Url_parse_str(s) ==
    IF s # <<>> /\ s[1] = "h" /\ \A i \in 1..Len(s) : s[i] # " "
    THEN [ok |-> TRUE, url |-> s]
    ELSE [ok |-> FALSE, url |-> <<>>]

\* the names a directory entry can have, in the order of String
NameOrder == <<"a", "b", "c">>
AllNames == Range(NameOrder)

NoMap == [n \in {} |-> <<>>]

\* fs::read_dir, flatten, filter on metadata().is_file(): an entry the
\* iterator yields as Err is dropped by flatten, an entry whose metadata
\* cannot be read is dropped by the else branch of the filter
\* (faulty variant: every entry that could be read is kept, whatever it is)
walk_files_in_dir_keeps_all(conf_dir) ==
    IF ~conf_dir.listable THEN [ok |-> FALSE, files |-> <<>>]
    ELSE [ok |-> TRUE,
          files |-> SelectSeq(conf_dir.entries, LAMBDA e : e.entry_ok)]
walk_files_in_dir(conf_dir) ==
    IF ~conf_dir.listable THEN [ok |-> FALSE, files |-> <<>>]
    ELSE [ok |-> TRUE,
          files |-> SelectSeq(conf_dir.entries,
                              LAMBDA e : e.entry_ok /\ e.meta_ok /\ e.ftype = "file")]

WalkOk(m) == [ok |-> TRUE, err |-> "", data |-> <<>>, name |-> "", map |-> m]
WalkErr(e, d, n) == [ok |-> FALSE, err |-> e, data |-> d, name |-> n, map |-> NoMap]

\* the for loop of walk_conf_dir over the remaining entries
\* (faulty variant: an entry that fails is left out and the loop goes on)
RECURSIVE walk_entries_skips_failures(_, _)
walk_entries_skips_failures(files, feed_urls) ==
    IF files = <<>> THEN WalkOk(feed_urls)
    ELSE LET entry == Head(files)
             trimmed_contents == trim(entry.contents)
             maybe_url == Url_parse_str(trimmed_contents)
         IN  IF ~entry.utf8 \/ ~entry.readable \/ ~maybe_url.ok
                \/ entry.name \in DOMAIN feed_urls
             THEN walk_entries_skips_failures(Tail(files), feed_urls)
             ELSE walk_entries_skips_failures(Tail(files),
                               (entry.name :> maybe_url.url) @@ feed_urls)
\* (faulty variant: InvalidUrl carries the contents as read, untrimmed)
RECURSIVE walk_entries_reports_raw_contents(_, _)
walk_entries_reports_raw_contents(files, feed_urls) ==
    IF files = <<>> THEN WalkOk(feed_urls)
    ELSE LET entry == Head(files)
             trimmed_contents == trim(entry.contents)
             maybe_url == Url_parse_str(trimmed_contents)
         IN  IF ~entry.utf8 THEN WalkErr("InvalidFilename", <<>>, entry.name)
             ELSE IF ~entry.readable THEN WalkErr("IoErr", <<>>, "")
             ELSE IF ~maybe_url.ok THEN WalkErr("InvalidUrl", entry.contents, "")
             ELSE IF entry.name \in DOMAIN feed_urls
             THEN WalkErr("DuplicateFeed", <<>>, entry.name)
             ELSE walk_entries_reports_raw_contents(Tail(files),
                               (entry.name :> maybe_url.url) @@ feed_urls)
RECURSIVE walk_entries(_, _)
walk_entries(files, feed_urls) ==
    IF files = <<>> THEN WalkOk(feed_urls)
    ELSE LET entry == Head(files)
             trimmed_contents == trim(entry.contents)
             maybe_url == Url_parse_str(trimmed_contents)
         IN  IF ~entry.utf8 THEN WalkErr("InvalidFilename", <<>>, entry.name)
             ELSE IF ~entry.readable THEN WalkErr("IoErr", <<>>, "")
             ELSE IF ~maybe_url.ok THEN WalkErr("InvalidUrl", trimmed_contents, "")
             ELSE IF entry.name \in DOMAIN feed_urls
             THEN WalkErr("DuplicateFeed", <<>>, entry.name)
             ELSE walk_entries(Tail(files),
                               (entry.name :> maybe_url.url) @@ feed_urls)

walk_conf_dir(conf_dir) ==
    LET files_in_dir == walk_files_in_dir(conf_dir)
    IN  IF ~files_in_dir.ok THEN WalkErr("IoErr", <<>>, "")
        ELSE walk_entries(files_in_dir.files, NoMap)

\* directory entries: the name and whether it is valid Unicode, whether
\* the iterator of read_dir yields the entry, whether its metadata can be
\* read, what it is, whether read_to_string succeeds on it, and its text
RegularFile(n, text) ==
    [name |-> n, utf8 |-> TRUE, entry_ok |-> TRUE, meta_ok |-> TRUE,
     ftype |-> "file", readable |-> TRUE, contents |-> text]
SubDir(n) ==
    [name |-> n, utf8 |-> TRUE, entry_ok |-> TRUE, meta_ok |-> TRUE,
     ftype |-> "dir", readable |-> FALSE, contents |-> <<>>]
NonUtf8File(n, text) == [RegularFile(n, text) EXCEPT !.utf8 = FALSE]
UnreadableFile(n) ==
    [RegularFile(n, <<>>) EXCEPT !.readable = FALSE]
BrokenEntry(n, text) == [RegularFile(n, text) EXCEPT !.entry_ok = FALSE]
NoMetadata(n, text) == [RegularFile(n, text) EXCEPT !.meta_ok = FALSE]
Dir(es) == [listable |-> TRUE, entries |-> es]
Unlistable == [listable |-> FALSE, entries |-> <<>>]

----------------------------------------------------------------------------
(* State *)

VARIABLES
    confDir,        \* the config directory (input, never written)
    cacheDir,       \* what cache_dir_path names: "dir", "missing" or "file"
    cache,          \* the file cache_dir/<name>, per feed name
    live,           \* what the network answers for each feed in this run
    run,            \* number of the current invocation
    mainPc,         \* position of main: start, conf, par, exited
    feed_mappings,  \* the BTreeMap returned by walk_conf_dir
    pc,             \* position of each feed's unit
    hit,            \* the unit read a cached document (Ok arm of the match)
    cached_feed,    \* local of the unit
    new_feed,       \* local of the unit
    result,         \* what the unit returned
    stdout,         \* the lines printed by this invocation
    errlog,         \* the feed names logged with an error by the final loop
    exitCode,       \* "", "SUCCESS" or "FAILURE"
    fatal,          \* which set-up step ended the run: "", "cachedir", "config"
    ioLog,          \* the I/O calls made by the units of this invocation
    cache0,         \* the cache files as they were when this invocation began
    unchanged,      \* every feed answers as in the previous invocation
    prevAllOk,      \* the previous invocation ran all its units without error
    calls,          \* the file-system calls the units of this invocation made
    prevReturned,   \* the links each unit returned in the previous invocation
    completed,      \* the units of this invocation, in the order they returned
    threads         \* the number of workers of the pool (the CPUs of the machine)

vars == <<confDir, cacheDir, cache, live, run, mainPc, feed_mappings, pc, hit,
          cached_feed, new_feed, result, stdout, errlog, exitCode, fatal,
          ioLog, cache0, unchanged, prevAllOk, calls, prevReturned, completed, threads>>

\* the feeds of this run, in the order the BTreeMap iterates them
Feeds == DOMAIN feed_mappings
FeedSeq == SelectSeq(NameOrder, LAMBDA n : n \in Feeds)

\* the feeds the config directory defines (none when the load fails)
Configured(dir) == DOMAIN walk_conf_dir(dir).map

----------------------------------------------------------------------------
(* main: set-up *)

\* main, lines 299-318: fs::metadata, create_dir_all
PrepareCacheDir ==
    /\ mainPc = "start"
    /\ \/ /\ cacheDir = "dir"
          /\ mainPc' = "conf"
          /\ UNCHANGED <<cacheDir, exitCode, fatal>>
       \/ /\ cacheDir = "file"
          /\ mainPc' = "exited"
          /\ exitCode' = "FAILURE"
          /\ fatal' = "cachedir"
          /\ UNCHANGED cacheDir
       \/ /\ cacheDir = "missing"
          /\ \E created \in BOOLEAN :
                IF created
                THEN /\ cacheDir' = "dir"
                     /\ mainPc' = "conf"
                     /\ UNCHANGED <<exitCode, fatal>>
                ELSE /\ mainPc' = "exited"
                     /\ exitCode' = "FAILURE"
                     /\ fatal' = "cachedir"
                     /\ UNCHANGED cacheDir
    /\ UNCHANGED <<confDir, cache, live, run, feed_mappings, pc, hit,
                   cached_feed, new_feed, result, stdout, errlog, ioLog,
                   cache0, unchanged, prevAllOk, calls, prevReturned, completed, threads>>

\* main, lines 320-326, and the fan-out of par_iter
\* (faulty variant: a failed load is logged and a default feed is processed)
LoadConfig_keeps_going ==
    /\ mainPc = "conf"
    /\ LET r == walk_conf_dir(confDir)
           m == IF r.ok THEN r.map ELSE (NameOrder[1] :> <<"h">>)
       IN  /\ feed_mappings' = m
           /\ pc' = [n \in AllNames |-> IF n \in DOMAIN m THEN "queued" ELSE "none"]
           /\ mainPc' = "par"
           /\ fatal' = IF r.ok THEN "" ELSE "config"
           /\ UNCHANGED exitCode
    /\ UNCHANGED <<confDir, cacheDir, cache, live, run, hit, cached_feed,
                   new_feed, result, stdout, errlog, ioLog, cache0, unchanged,
                   prevAllOk, calls, prevReturned, completed, threads>>
LoadConfig ==
    /\ mainPc = "conf"
    /\ LET r == walk_conf_dir(confDir)
       IN  IF r.ok
           THEN /\ feed_mappings' = r.map
                /\ pc' = [n \in AllNames |->
                            IF n \in DOMAIN r.map THEN "queued" ELSE "none"]
                /\ mainPc' = "par"
                /\ UNCHANGED <<exitCode, fatal>>
           ELSE /\ mainPc' = "exited"
                /\ exitCode' = "FAILURE"
                /\ fatal' = "config"
                /\ UNCHANGED <<feed_mappings, pc>>
    /\ UNCHANGED <<confDir, cacheDir, cache, live, run, hit, cached_feed,
                   new_feed, result, stdout, errlog, ioLog, cache0, unchanged,
                   prevAllOk, calls, prevReturned, completed, threads>>

----------------------------------------------------------------------------
(* The unit get_and_cache_new_items_from_feed, one action per blocking call *)

\* one call of a unit on a file of the cache directory
FsCall(f, op, path, io, err) ==
    [unit |-> f, op |-> op, path |-> path, io |-> io, err |-> err]

Running == {n \in AllNames : pc[n] \in {"read", "fetch", "write"}}

\* a worker of the pool picks up the closure of par_iter().map for one feed
\* (faulty variant: the closures are executed one at a time)
StartUnit_one_at_a_time(f) ==
    /\ mainPc = "par"
    /\ pc[f] = "queued"
    /\ Running = {}
    /\ pc' = [pc EXCEPT ![f] = "read"]
    /\ UNCHANGED <<confDir, cacheDir, cache, live, run, mainPc, feed_mappings,
                   hit, cached_feed, new_feed, result, stdout, errlog,
                   exitCode, fatal, ioLog, cache0, unchanged, prevAllOk, calls,
                   prevReturned, completed, threads>>
StartUnit(f) ==
    /\ mainPc = "par"
    /\ pc[f] = "queued"
    /\ Cardinality(Running) < threads
    /\ pc' = [pc EXCEPT ![f] = "read"]
    /\ UNCHANGED <<confDir, cacheDir, cache, live, run, mainPc, feed_mappings,
                   hit, cached_feed, new_feed, result, stdout, errlog,
                   exitCode, fatal, ioLog, cache0, unchanged, prevAllOk, calls,
                   prevReturned, completed, threads>>

\* feed_cache_readable.read_cache(feed_name) and the match on its result
\* (faulty variant: a cache file that cannot be read counts as a missing one)
ReadCache_takes_unreadable_as_missing(f) ==
    /\ pc[f] = "read"
    /\ \E io \in ReadIo :
          LET cache_file == cache_file_path(f)
              maybe_cached_feed == load_cached_feed_from_disk(cache[cache_file], io)
          IN  /\ calls' = calls \cup {FsCall(f, "read", cache_file, io, maybe_cached_feed.err)}
              /\ IF maybe_cached_feed.ok
                 THEN /\ hit' = [hit EXCEPT ![f] = TRUE]
                      /\ cached_feed' = [cached_feed EXCEPT ![f] = maybe_cached_feed.doc]
                 ELSE UNCHANGED <<hit, cached_feed>>
    /\ pc' = [pc EXCEPT ![f] = "fetch"]
    /\ ioLog' = ioLog \cup {<<f, "read">>}
    /\ UNCHANGED <<confDir, cacheDir, cache, live, run, mainPc, feed_mappings,
                   new_feed, result, stdout, errlog, exitCode, fatal, cache0,
                   unchanged, prevAllOk, prevReturned, completed, threads>>
ReadCache(f) ==
    /\ pc[f] = "read"
    /\ \E io \in ReadIo :
          LET cache_file == cache_file_path(f)
              maybe_cached_feed == load_cached_feed_from_disk(cache[cache_file], io)
          IN  /\ calls' = calls \cup {FsCall(f, "read", cache_file, io, maybe_cached_feed.err)}
              /\ IF maybe_cached_feed.ok
                 THEN /\ hit' = [hit EXCEPT ![f] = TRUE]
                      /\ cached_feed' = [cached_feed EXCEPT ![f] = maybe_cached_feed.doc]
                      /\ pc' = [pc EXCEPT ![f] = "fetch"]
                      /\ UNCHANGED result
                 ELSE IF maybe_cached_feed.err = "IoErr.NotFound"
                 THEN /\ pc' = [pc EXCEPT ![f] = "fetch"]
                      /\ UNCHANGED <<hit, cached_feed, result>>
                 ELSE /\ result' = [result EXCEPT ![f] = UnitErr(maybe_cached_feed.err)]
                      /\ pc' = [pc EXCEPT ![f] = "done"]
                      /\ UNCHANGED <<hit, cached_feed>>
    /\ ioLog' = ioLog \cup {<<f, "read">>}
    /\ completed' = IF pc'[f] = "done" THEN Append(completed, f) ELSE completed
    /\ UNCHANGED <<confDir, cacheDir, cache, live, run, mainPc, feed_mappings,
                   new_feed, stdout, errlog, exitCode, fatal, cache0,
                   unchanged, prevAllOk, prevReturned, threads>>

\* fetch_feed.get_feed(feed_name, feed_url)?  (either arm)
\* (faulty variant: the cache file is opened for writing before the fetch)
FetchFeed_truncates_on_error(f) ==
    /\ pc[f] = "fetch"
    /\ live[f] # Never
    /\ LET r == get_feed_with_blocking_http_request(live[f])
       IN  IF r.ok
           THEN /\ new_feed' = [new_feed EXCEPT ![f] = r.doc]
                /\ pc' = [pc EXCEPT ![f] = "write"]
                /\ UNCHANGED <<result, cache>>
           ELSE /\ result' = [result EXCEPT ![f] = UnitErr(r.err)]
                /\ pc' = [pc EXCEPT ![f] = "done"]
                /\ cache' = [cache EXCEPT ![f] = Truncated]
                /\ UNCHANGED new_feed
    /\ ioLog' = ioLog \cup {<<f, "fetch">>}
    /\ completed' = IF pc'[f] = "done" THEN Append(completed, f) ELSE completed
    /\ UNCHANGED <<confDir, cacheDir, live, run, mainPc, feed_mappings, hit,
                   cached_feed, stdout, errlog, exitCode, fatal, cache0,
                   unchanged, prevAllOk, calls, prevReturned, threads>>
FetchFeed(f) ==
    /\ pc[f] = "fetch"
    /\ live[f] # Never
    /\ LET r == get_feed_with_blocking_http_request(live[f])
       IN  IF r.ok
           THEN /\ new_feed' = [new_feed EXCEPT ![f] = r.doc]
                /\ pc' = [pc EXCEPT ![f] = "write"]
                /\ UNCHANGED result
           ELSE /\ result' = [result EXCEPT ![f] = UnitErr(r.err)]
                /\ pc' = [pc EXCEPT ![f] = "done"]
                /\ UNCHANGED new_feed
    /\ ioLog' = ioLog \cup {<<f, "fetch">>}
    /\ completed' = IF pc'[f] = "done" THEN Append(completed, f) ELSE completed
    /\ UNCHANGED <<confDir, cacheDir, cache, live, run, mainPc, feed_mappings,
                   hit, cached_feed, stdout, errlog, exitCode, fatal, cache0,
                   unchanged, prevAllOk, calls, prevReturned, threads>>

\* the diff, feed_writer.write_cache(feed_name, &new_feed)? and the Ok return.
\* The Vec is collected from a HashSet: its order is any order.
\* (faulty variant: the links are returned whether or not the write succeeded)
WriteCache_returns_links_anyway(f) ==
    /\ pc[f] = "write"
    /\ \E io \in WriteIo :
          LET cache_file == cache_file_path(f)
              w == cache_feed_to_disk(cache[cache_file], new_feed[f], io)
          IN  /\ cache' = [cache EXCEPT ![cache_file] = w.file]
              /\ calls' = calls \cup {FsCall(f, "write", cache_file, io, w.err)}
              /\ \E links \in Perms(unit_links(hit[f], cached_feed[f], new_feed[f])) :
                    result' = [result EXCEPT ![f] = UnitOk(links)]
    /\ pc' = [pc EXCEPT ![f] = "done"]
    /\ ioLog' = ioLog \cup {<<f, "write">>}
    /\ completed' = IF pc'[f] = "done" THEN Append(completed, f) ELSE completed
    /\ UNCHANGED <<confDir, cacheDir, live, run, mainPc, feed_mappings, hit,
                   cached_feed, new_feed, stdout, errlog, exitCode, fatal,
                   cache0, unchanged, prevAllOk, prevReturned, threads>>
WriteCache(f) ==
    /\ pc[f] = "write"
    /\ \E io \in WriteIo :
          LET cache_file == cache_file_path(f)
              w == cache_feed_to_disk(cache[cache_file], new_feed[f], io)
          IN  /\ cache' = [cache EXCEPT ![cache_file] = w.file]
              /\ calls' = calls \cup {FsCall(f, "write", cache_file, io, w.err)}
              /\ IF w.ok
                 THEN \E links \in Perms(unit_links(hit[f], cached_feed[f], new_feed[f])) :
                          result' = [result EXCEPT ![f] = UnitOk(links)]
                 ELSE result' = [result EXCEPT ![f] = UnitErr(w.err)]
    /\ pc' = [pc EXCEPT ![f] = "done"]
    /\ ioLog' = ioLog \cup {<<f, "write">>}
    /\ completed' = IF pc'[f] = "done" THEN Append(completed, f) ELSE completed
    /\ UNCHANGED <<confDir, cacheDir, live, run, mainPc, feed_mappings, hit,
                   cached_feed, new_feed, stdout, errlog, exitCode, fatal,
                   cache0, unchanged, prevAllOk, prevReturned, threads>>

----------------------------------------------------------------------------
(* main: aggregation and output *)

\* the Vec collected from par_iter: one (feed_name, Result) per feed, in the
\* order of the map
fetch_feeds == [i \in 1..Len(FeedSeq) |->
                  [name |-> FeedSeq[i], res |-> result[FeedSeq[i]]]]

\* the loop of lines 344-350: the BTreeSet it fills
\* (faulty variant: the loop ends at the first failed unit)
RECURSIVE new_unique_links_stops_at_error(_)
new_unique_links_stops_at_error(fs) ==
    IF fs = <<>> THEN {}
    ELSE IF Head(fs).res.ok
    THEN Range(Head(fs).res.links) \cup new_unique_links_stops_at_error(Tail(fs))
    ELSE {}
RECURSIVE new_unique_links(_)
new_unique_links(fs) ==
    IF fs = <<>> THEN {}
    ELSE IF Head(fs).res.ok
    THEN Range(Head(fs).res.links) \cup new_unique_links(Tail(fs))
    ELSE new_unique_links(Tail(fs))

\* the same loop: the feed names it logs with their error
logged_errors(fs) ==
    LET failed == SelectSeq(fs, LAMBDA e : ~e.res.ok)
    IN  [i \in 1..Len(failed) |-> failed[i].name]

\* iterating a BTreeSet<String>: ascending order
\* (faulty variant: descending order)
RECURSIVE BTreeSet_iter_unordered(_)
BTreeSet_iter_unordered(S) ==
    IF S = {} THEN <<>>
    ELSE LET x == CHOOSE e \in S : \A o \in S \ {e} : LexLess(o, e)
         IN  <<x>> \o BTreeSet_iter_unordered(S \ {x})
RECURSIVE BTreeSet_iter(_)
BTreeSet_iter(S) ==
    IF S = {} THEN <<>>
    ELSE LET x == CHOOSE e \in S : \A o \in S \ {e} : LexLess(e, o)
         IN  <<x>> \o BTreeSet_iter(S \ {x})

\* the exit status main returns after the output loop
\* (faulty variant: a failed unit fails the run)
exit_status_fails_with_any_unit(fs) ==
    IF \E i \in 1..Len(fs) : ~fs[i].res.ok THEN "FAILURE" ELSE "SUCCESS"
exit_status(fs) == "SUCCESS"

\* main, lines 342-356: collect() returns once every unit is done
Aggregate ==
    /\ mainPc = "par"
    /\ \A n \in Feeds : pc[n] = "done"
    /\ stdout' = BTreeSet_iter(new_unique_links(fetch_feeds))
    /\ errlog' = logged_errors(fetch_feeds)
    /\ exitCode' = exit_status(fetch_feeds)
    /\ mainPc' = "exited"
    /\ UNCHANGED <<confDir, cacheDir, cache, live, run, feed_mappings, pc, hit,
                   cached_feed, new_feed, result, fatal, ioLog, cache0,
                   unchanged, prevAllOk, calls, prevReturned, completed, threads>>

----------------------------------------------------------------------------
(* The environment: the next invocation of the program *)

Answers(Bodies) == {Down} \cup {Resp(b) : b \in Bodies}
LiveChoices(answers, names) ==
    {[n \in AllNames |-> IF n \in names THEN l[n] ELSE Down] :
        l \in [names -> answers]}

NextInvocation(Bodies) ==
    /\ mainPc = "exited"
    /\ run < MaxRuns
    /\ run' = run + 1
    /\ \E l \in LiveChoices(Answers(Bodies), Configured(confDir)) :
          /\ live' = l
          /\ unchanged' = (l = live)
    /\ prevAllOk' = (exitCode = "SUCCESS" /\ \A n \in Feeds : result[n].ok)
    /\ cache0' = cache
    /\ mainPc' = "start"
    /\ feed_mappings' = NoMap
    /\ pc' = [n \in AllNames |-> "none"]
    /\ hit' = [n \in AllNames |-> FALSE]
    /\ cached_feed' = [n \in AllNames |-> NoDoc]
    /\ new_feed' = [n \in AllNames |-> NoDoc]
    /\ result' = [n \in AllNames |-> NoResult]
    /\ stdout' = <<>>
    /\ errlog' = <<>>
    /\ exitCode' = ""
    /\ fatal' = ""
    /\ ioLog' = {}
    /\ calls' = {}
    /\ completed' = <<>>
    /\ prevReturned' = [n \in AllNames |->
                          IF n \in Feeds /\ result[n].ok
                          THEN Range(result[n].links) ELSE {}]
    /\ UNCHANGED <<confDir, cacheDir, cache, threads>>

----------------------------------------------------------------------------
(* Specifications *)

InitWith(ConfDirs, CacheDirs, Files, answers, Threads) ==
    /\ threads \in Threads
    /\ confDir \in ConfDirs
    /\ cacheDir \in CacheDirs
    /\ cache \in {[n \in AllNames |-> IF n \in DOMAIN c THEN c[n] ELSE Absent] :
                    c \in [IF cacheDir = "dir" THEN Configured(confDir) ELSE {}
                              -> Files]}
    /\ live \in LiveChoices(answers, Configured(confDir))
    /\ run = 1
    /\ mainPc = "start"
    /\ feed_mappings = NoMap
    /\ pc = [n \in AllNames |-> "none"]
    /\ hit = [n \in AllNames |-> FALSE]
    /\ cached_feed = [n \in AllNames |-> NoDoc]
    /\ new_feed = [n \in AllNames |-> NoDoc]
    /\ result = [n \in AllNames |-> NoResult]
    /\ stdout = <<>>
    /\ errlog = <<>>
    /\ exitCode = ""
    /\ fatal = ""
    /\ ioLog = {}
    /\ cache0 = cache
    /\ unchanged = FALSE
    /\ prevAllOk = FALSE
    /\ calls = {}
    /\ completed = <<>>
    /\ prevReturned = [n \in AllNames |-> {}]

\* the pipeline: several feeds, several invocations, small documents
\* the items of the channel with one item per link of S
RECURSIVE ItemsOf(_)
ItemsOf(S) ==
    IF S = {} THEN <<>>
    ELSE LET r == CHOOSE x \in S : \A y \in S : x <= y
         IN  <<<<r>>>> \o ItemsOf(S \ {r})
PipeBytes == {[root |-> "rss", items |-> ItemsOf(S)] : S \in SUBSET (1..MaxPipeUrls)}
PipeBodies == PipeBytes \cup {Garbage}
PipeFiles == {Absent, Truncated} \cup {File(b) : b \in PipeBytes}
PipeConfDirs ==
    { Dir(<<RegularFile("a", <<"h", "x">>), RegularFile("b", <<" ", "h", "y", " ">>)>>),
      Dir(<<SubDir("b"), RegularFile("a", <<"h", "x">>)>>),
      Dir(<<RegularFile("a", <<"x">>)>>),
      Unlistable }

Init == InitWith(PipeConfDirs, {"dir", "missing", "file"}, PipeFiles,
                 Answers(PipeBodies), {NumThreads})

Next ==
    \/ PrepareCacheDir
    \/ LoadConfig
    \/ \E f \in AllNames : StartUnit(f)
    \/ \E f \in AllNames : ReadCache(f)
    \/ \E f \in AllNames : FetchFeed(f)
    \/ \E f \in AllNames : WriteCache(f)
    \/ Aggregate
    \/ NextInvocation(PipeBodies)

Spec == Init /\ [][Next]_vars

\* one unit on every pair of a cache file and a network answer
UnitBytes ==
    [root : {"rss"}, items : SeqsUpTo(SeqsUpTo(0..NumRaw, 1), MaxItems)]
    \cup [root : {"feed"}, items : SeqsUpTo(SeqsUpTo(0..NumRaw, MaxEntryLinks), MaxEntries)]
UnitBodies == UnitBytes \cup {Garbage}
UnitFiles == {Absent, Truncated} \cup {File(b) : b \in UnitBytes}
UnitConfDirs == { Dir(<<RegularFile("a", <<"h", "x">>)>>) }

InitUnit == InitWith(UnitConfDirs, {"dir"}, UnitFiles, Answers(UnitBodies),
                     {NumThreads})

NextUnit ==
    \/ PrepareCacheDir
    \/ LoadConfig
    \/ \E f \in AllNames : StartUnit(f)
    \/ \E f \in AllNames : ReadCache(f)
    \/ \E f \in AllNames : FetchFeed(f)
    \/ \E f \in AllNames : WriteCache(f)
    \/ Aggregate

SpecUnit == InitUnit /\ [][NextUnit]_vars

\* the config loader on every directory of up to MaxDirEntries entries, in
\* every order read_dir can yield them
WalkTexts == { <<"h", "x">>, <<" ", "h", "y", " ">>, <<"x">>, <<" ", "x", " ">> }
WalkEntries ==
    {RegularFile(n, t) : n \in {"a", "b"}, t \in WalkTexts}
    \cup {SubDir(n) : n \in {"a", "b"}}
    \cup { NonUtf8File("a", <<"h", "x">>), UnreadableFile("a"),
           BrokenEntry("b", <<"h", "y">>), NoMetadata("b", <<"h", "y">>) }
WalkConfDirs == {Dir(es) : es \in SeqsUpTo(WalkEntries, MaxDirEntries)} \cup {Unlistable}

InitWalk == InitWith(WalkConfDirs, {"dir"}, {Absent}, {Down}, {NumThreads})

NextWalk ==
    \/ PrepareCacheDir
    \/ LoadConfig

SpecWalk == InitWalk /\ [][NextWalk]_vars

\* three feeds on a pool of one or more workers; a feed answers, or its
\* fetch never returns
PoolBytes == {[root |-> "rss", items |-> ItemsOf({1})]}
PoolAnswers == {Never} \cup {Resp(b) : b \in PoolBytes}
PoolFiles == {Absent}
PoolConfDirs ==
    { Dir(<<RegularFile("a", <<"h", "x">>), RegularFile("b", <<"h", "y">>),
            RegularFile("c", <<"h", "z">>)>>) }

InitPool == InitWith(PoolConfDirs, {"dir"}, PoolFiles, PoolAnswers, 1..NumThreads)

NextPool ==
    \/ PrepareCacheDir
    \/ LoadConfig
    \/ \E f \in AllNames : StartUnit(f)
    \/ \E f \in AllNames : ReadCache(f)
    \/ \E f \in AllNames : FetchFeed(f)
    \/ \E f \in AllNames : WriteCache(f)
    \/ Aggregate

\* main does the next thing it can do; an idle worker takes a queued
\* closure; a call that returns is followed by the next statement
PoolFairness ==
    /\ WF_vars(PrepareCacheDir)
    /\ WF_vars(LoadConfig)
    /\ \A f \in AllNames : WF_vars(StartUnit(f))
    /\ \A f \in AllNames : WF_vars(ReadCache(f))
    /\ \A f \in AllNames : WF_vars(FetchFeed(f))
    /\ \A f \in AllNames : WF_vars(WriteCache(f))
    /\ WF_vars(Aggregate)

SpecPool == InitPool /\ [][NextPool]_vars /\ PoolFairness

----------------------------------------------------------------------------
(* Properties *)

\* what the inputs of a unit are, read off the environment
Fetched(f) == get_feed_with_blocking_http_request(live[f])
CachedAtStart(f) == load_cached_feed_from_disk(cache0[f], "ok")
OnDisk(f) == load_cached_feed_from_disk(cache[f], "ok")
LinkStrings(doc) == {Url_to_string(u) : u \in Range(get_links(doc))}
Returned(f) == Range(result[f].links)
UnitDone(f) == f \in Feeds /\ pc[f] = "done"
Exited == mainPc = "exited"
FetchErrors == {"ReqwestErr", "FeedIsNeitherAtomOrRss"}

\* C1: a unit that read a cached snapshot and succeeded returns exactly the
\* links of the fetched document that the snapshot lacks, each once.
C1_DiffIsSetDifference ==
    \A f \in AllNames :
        (UnitDone(f) /\ hit[f] /\ result[f].ok) =>
            LET ret == result[f].links
                fresh == LinkStrings(Fetched(f).doc)
                cached == LinkStrings(CachedAtStart(f).doc)
            IN  /\ \A i \in 1..Len(ret) : ret[i] \in fresh /\ ret[i] \notin cached
                /\ \A l \in fresh \ cached : l \in Range(ret)
                /\ \A i, j \in 1..Len(ret) : i # j => ret[i] # ret[j]

\* cached {A, B}, fresh {B, C}: the unit returned just C
C1_Witness ==
    \E f \in AllNames :
        /\ UnitDone(f) /\ hit[f] /\ result[f].ok
        /\ LET fresh == LinkStrings(Fetched(f).doc)
               cached == LinkStrings(CachedAtStart(f).doc)
           IN  /\ Cardinality(cached) = 2
               /\ Cardinality(fresh) = 2
               /\ Cardinality(cached \cap fresh) = 1
               /\ Len(result[f].links) = 1

\* C2: with no cache file at the start, a unit that succeeds returns no
\* links and leaves a cache file that reads back as the fetched document.
C2_FirstRunWritesCache ==
    \A f \in AllNames :
        (UnitDone(f) /\ ~cache0[f].present /\ result[f].ok) =>
            /\ result[f].links = <<>>
            /\ cache[f].present
            /\ OnDisk(f).ok
            /\ OnDisk(f).doc = Fetched(f).doc
            /\ LinkStrings(OnDisk(f).doc) = LinkStrings(Fetched(f).doc)

C2_Witness ==
    \E f \in AllNames :
        /\ UnitDone(f) /\ ~cache0[f].present /\ result[f].ok
        /\ cache[f].present
        /\ Len(Fetched(f).doc.items) = MaxItems
        /\ LinkStrings(OnDisk(f).doc) # {}

\* C3 as stated: with no cached document the diff is the full set of links
\* of the fetched document.
C3_Original_FirstRunReturnsAllLinks ==
    \A f \in AllNames :
        (UnitDone(f) /\ ~hit[f] /\ result[f].ok) =>
            Returned(f) = LinkStrings(Fetched(f).doc)

\* C3 amended: with no cached document the unit reports none of the links of
\* the fetched document, however many it has.
C3_FirstRunReturnsNothing ==
    \A f \in AllNames :
        (UnitDone(f) /\ ~hit[f] /\ result[f].ok) =>
            /\ Len(result[f].links) = 0
            /\ Returned(f) \cap LinkStrings(Fetched(f).doc) = {}

C3_Witness ==
    \E f \in AllNames :
        /\ UnitDone(f) /\ ~hit[f] /\ result[f].ok
        /\ Cardinality(LinkStrings(Fetched(f).doc)) >= 2
        /\ Returned(f) = {}

\* the live feeds answer with a document, the same as in the previous run
SameDocuments == unchanged /\ \A f \in Feeds : Fetched(f).ok

C5_FailureIsolation ==
    (Exited /\ fatal = "") =>
        /\ exitCode = "SUCCESS"
        /\ \A f \in Feeds : pc[f] = "done"
        /\ \A f \in Feeds : result[f].ok => Returned(f) \subseteq Range(stdout)
        /\ \A f \in Feeds : result[f].ok <=> f \notin Range(errlog)
        /\ Range(stdout) \subseteq UNION {Returned(f) : f \in {g \in Feeds : result[g].ok}}

C5_Witness ==
    /\ Exited /\ fatal = ""
    /\ \E f, g \in Feeds :
          /\ ~result[f].ok /\ result[f].err \in FetchErrors
          /\ f = NameOrder[1]
          /\ result[g].ok /\ Returned(g) # {}
          /\ Returned(g) \subseteq Range(stdout)
          /\ errlog = <<f>>

\* C6: a unit whose fetch failed leaves its cache file as it was at the
\* start of the run, and a cache write is only made after a fetch of the
\* same unit succeeded.
C6_FetchFailureLeavesCache ==
    \A f \in AllNames :
        /\ (UnitDone(f) /\ ~result[f].ok /\ result[f].err \in FetchErrors)
              => (cache[f] = cache0[f] /\ <<f, "write">> \notin ioLog)
        /\ <<f, "write">> \in ioLog
              => (<<f, "fetch">> \in ioLog /\ Fetched(f).ok /\ new_feed[f] = Fetched(f).doc)

\* one feed failed its fetch with a cache file, another without one
C6_Witness ==
    \E f, g \in Feeds :
        /\ UnitDone(f) /\ UnitDone(g)
        /\ result[f].err \in FetchErrors /\ result[g].err \in FetchErrors
        /\ hit[f] /\ cache0[f].present /\ cache[f] = cache0[f]
        /\ LinkStrings(OnDisk(f).doc) # {}
        /\ ~hit[g] /\ ~cache0[g].present /\ ~cache[g].present

\* C7 as stated: after every successful fetch the cache file holds the
\* fetched document.
C7_Original_FetchImpliesCached ==
    \A f \in AllNames :
        (UnitDone(f) /\ <<f, "fetch">> \in ioLog /\ Fetched(f).ok) =>
            (OnDisk(f).ok /\ OnDisk(f).doc = Fetched(f).doc)

\* C7 amended: every successful fetch is followed by a cache write of the
\* fetched document; when that write succeeds (the unit returns Ok) the file
\* holds exactly the fetched document, whatever it held before, and a next
\* run over an unchanged feed reads that document back as its cached one.
C7_CacheReflectsLastWrite ==
    \A f \in AllNames :
        /\ (UnitDone(f) /\ <<f, "fetch">> \in ioLog /\ Fetched(f).ok)
              => <<f, "write">> \in ioLog
        /\ (UnitDone(f) /\ result[f].ok)
              => (OnDisk(f).ok /\ OnDisk(f).doc = Fetched(f).doc)
        /\ (run >= 2 /\ prevAllOk /\ SameDocuments /\ f \in Feeds /\ hit[f])
              => cached_feed[f] = Fetched(f).doc

\* a second run replaced a snapshot with a different document
C7_Witness ==
    \E f \in Feeds :
        /\ run >= 2 /\ UnitDone(f) /\ result[f].ok
        /\ cache0[f].present /\ CachedAtStart(f).ok
        /\ cache[f] # cache0[f]
        /\ LinkStrings(CachedAtStart(f).doc) \ LinkStrings(OnDisk(f).doc) # {}
        /\ OnDisk(f).doc = Fetched(f).doc

\* C8: the output is the union of the link lists of the successful units,
\* each link once, in strictly ascending order of the strings.
C8_SortedUnion ==
    (Exited /\ exitCode = "SUCCESS") =>
        /\ Range(stdout) = UNION {Returned(f) : f \in {g \in Feeds : result[g].ok}}
        /\ \A i \in 1..(Len(stdout) - 1) : LexLess(stdout[i], stdout[i + 1])
        /\ \A i, j \in 1..Len(stdout) : i # j => stdout[i] # stdout[j]

\* two units share a link and one has a second link: two lines are printed
C8_Witness ==
    /\ Exited /\ exitCode = "SUCCESS"
    /\ \E f, g \in Feeds :
          /\ f # g /\ result[f].ok /\ result[g].ok
          /\ Cardinality(Returned(f)) = 2
          /\ Cardinality(Returned(g)) = 1
          /\ Returned(g) \subseteq Returned(f)
    /\ Len(stdout) = 2

\* what set-up needs: the cache directory is there and the config loads
SetupOk == cacheDir = "dir" /\ walk_conf_dir(confDir).ok

\* C9: the run exits with success exactly when the cache directory could be
\* prepared and the config loaded, whatever the units did; a run that exits
\* with failure printed nothing.
C9_ExitStatus ==
    Exited =>
        /\ exitCode \in {"SUCCESS", "FAILURE"}
        /\ exitCode = "SUCCESS" <=> SetupOk
        /\ exitCode = "FAILURE" => stdout = <<>>

\* every unit of a run of two feeds failed, and the run still succeeded
C9_Witness ==
    /\ Exited /\ exitCode = "SUCCESS" /\ SetupOk
    /\ Cardinality(Feeds) = 2
    /\ \A f \in Feeds : ~result[f].ok
    /\ stdout = <<>>

\* C10: while the cache directory is not there or the config does not load,
\* no unit has started and no cache read, fetch or cache write was made; a
\* run that ended in failure changed no cache file.
C10_FatalBeforeUnits ==
    /\ ~SetupOk => (ioLog = {} /\ \A n \in AllNames : pc[n] = "none")
    /\ (Exited /\ exitCode = "FAILURE") => (ioLog = {} /\ cache = cache0)

C10_Witness ==
    /\ Exited /\ exitCode = "FAILURE" /\ fatal = "config"
    /\ cacheDir = "dir" /\ ~walk_conf_dir(confDir).ok
    /\ ioLog = {}

\* the regular files a config directory lists, as the file system holds them
RegularEntries(dir) == SelectSeq(dir.entries, LAMBDA e : e.ftype = "file")

\* C11: within a run every call a unit makes on the cache directory names
\* the file of the unit's own feed name, so two different units never read
\* or write the same file; and the units stand for pairwise distinct names:
\* no two config files were loaded under one name.
C11_OwnCacheFileOnly ==
    /\ \A c \in calls : c.unit \in Feeds /\ c.path = c.unit
    /\ \A c, d \in calls : c.unit # d.unit => c.path # d.path
    /\ \A p \in AllNames :
          cache[p] # cache0[p] => \E c \in calls : c.op = "write" /\ c.unit = p
    /\ mainPc \in {"par", "exited"} /\ fatal = "" =>
          /\ Len(RegularEntries(confDir)) = Cardinality(Feeds)
          /\ \A i, j \in 1..Len(FeedSeq) : FeedSeq[i] = FeedSeq[j] => i = j

\* two units are executing at once, each having read its own cache file,
\* and one of them has already written it
C11_Witness ==
    /\ Cardinality(Feeds) = 2
    /\ \E f, g \in Feeds :
          /\ f # g /\ pc[f] = "done" /\ pc[g] = "write"
          /\ \E c \in calls : c.unit = f /\ c.op = "write" /\ c.err = ""
          /\ \E c \in calls : c.unit = g /\ c.op = "read"
          /\ cache[f] # cache0[f]

\* the outcome the disk gave the unit of f in this run, as recorded
ReadOutcome(f) ==
    CHOOSE io \in ReadIo : \E c \in calls : c.unit = f /\ c.op = "read" /\ c.io = io
WriteOutcome(f) ==
    IF \E c \in calls : c.unit = f /\ c.op = "write"
    THEN CHOOSE io \in WriteIo :
            \E c \in calls : c.unit = f /\ c.op = "write" /\ c.io = io
    ELSE "ok"

\* one unit executed alone on its inputs: the file it leaves, whether it
\* succeeds and the set of links it returns
AloneUnit(file, resp, rio, wio) ==
    LET c == load_cached_feed_from_disk(file, rio)
        n == get_feed_with_blocking_http_request(resp)
        w == cache_feed_to_disk(file, n.doc, wio)
    IN  IF ~c.ok /\ c.err # "IoErr.NotFound"
        THEN [file |-> file, ok |-> FALSE, links |-> {}]
        ELSE IF ~n.ok THEN [file |-> file, ok |-> FALSE, links |-> {}]
        ELSE IF ~w.ok THEN [file |-> w.file, ok |-> FALSE, links |-> {}]
        ELSE [file |-> w.file, ok |-> TRUE,
              links |-> {Url_to_string(u) :
                           u \in IF c.ok THEN Range(get_links(n.doc))
                                                 \ Range(get_links(c.doc))
                                 ELSE {}}]

\* C12: when a run has exited, the printed list and every cache file are
\* what the feed mapping, the cache files at the start of the run, the
\* answers of the feeds and the outcomes of the disk calls determine, one
\* unit taken alone after the other: the order in which the units were
\* interleaved and completed does not show in them.
C12_InterleavingIndependent ==
    (Exited /\ fatal = "") =>
        LET alone == [f \in Feeds |->
                        AloneUnit(cache0[f], live[f], ReadOutcome(f), WriteOutcome(f))]
        IN  /\ \A f \in Feeds :
                  cache[f] = alone[f].file /\ result[f].ok = alone[f].ok
            /\ \A p \in AllNames \ Feeds : cache[p] = cache0[p]
            /\ Range(stdout) = UNION {alone[f].links : f \in {g \in Feeds : alone[g].ok}}
            /\ \A i \in 1..(Len(stdout) - 1) : LexLess(stdout[i], stdout[i + 1])

\* the unit of "b" returned before the unit of "a", both rewrote their cache
\* files and both contributed a link; the lines are printed in string order
C12_Witness ==
    /\ Exited /\ fatal = ""
    /\ completed = <<"b", "a">>
    /\ result["a"].ok /\ result["b"].ok
    /\ cache["a"] # cache0["a"] /\ cache["b"] # cache0["b"]
    /\ Returned("a") # {} /\ Returned("b") # {} /\ Returned("a") # Returned("b")
    /\ Len(stdout) = 2

\* the feeds whose fetch never returns in this run
Hung == {n \in Feeds : live[n] = Never}

\* aggregation and output wait for every unit
AggregatesAfterAllUnits ==
    /\ (Exited /\ fatal = "") => \A f \in Feeds : pc[f] = "done"
    /\ ~Exited => stdout = <<>>

IsTrimOf(u, s) ==
    /\ u # <<>> => (u[1] # " " /\ u[Len(u)] # " ")
    /\ \E i, j \in 0..Len(s) :
          /\ i + Len(u) + j = Len(s)
          /\ \A k \in 1..Len(u) : s[i + k] = u[k]
          /\ \A k \in 1..i : s[k] = " "
          /\ \A k \in (Len(s) - j + 1)..Len(s) : s[k] = " "
TrimmedText(s) ==
    CHOOSE u \in {SubSeq(s, i, j) : i \in 1..(Len(s) + 1), j \in 0..Len(s)} :
        IsTrimOf(u, s)
AbsoluteUrl(u) == u # <<>> /\ u[1] = "h" /\ \A k \in 1..Len(u) : u[k] # " "

\* the config loader has returned to main
Loaded == mainPc \notin {"start", "conf"}

\* every regular file of the directory can be listed and read, has a name
\* that is text and a text that is an absolute URL once trimmed, and no two
\* regular files have the same name
CleanDir(dir) ==
    /\ dir.listable
    /\ \A i \in 1..Len(RegularEntries(dir)) :
          LET e == RegularEntries(dir)[i]
          IN  /\ e.entry_ok /\ e.meta_ok /\ e.utf8 /\ e.readable
              /\ AbsoluteUrl(TrimmedText(e.contents))
              /\ \A j \in 1..Len(RegularEntries(dir)) :
                    RegularEntries(dir)[j].name = e.name => j = i

\* C14: loading a directory whose N regular files have distinct text names
\* and texts that are absolute URLs once trimmed succeeds with a mapping of
\* exactly N entries: each file's name is mapped to its trimmed text, and
\* nothing else is a key.
C14_OneEntryPerRegularFile ==
    (Loaded /\ CleanDir(confDir)) =>
        /\ fatal = ""
        /\ Cardinality(Feeds) = Len(RegularEntries(confDir))
        /\ \A i \in 1..Len(RegularEntries(confDir)) :
              LET e == RegularEntries(confDir)[i]
              IN  e.name \in Feeds /\ feed_mappings[e.name] = TrimmedText(e.contents)
        /\ Feeds = {RegularEntries(confDir)[i].name :
                        i \in 1..Len(RegularEntries(confDir))}

\* two config files, one with blanks around its URL, next to a directory
C14_Witness ==
    /\ Loaded /\ CleanDir(confDir)
    /\ Len(confDir.entries) = 3 /\ Len(RegularEntries(confDir)) = 2
    /\ \E i \in 1..3 : confDir.entries[i].ftype = "dir"
    /\ Feeds = {"a", "b"}
    /\ feed_mappings["b"] = <<"h", "y">>
    /\ \E i \in 1..3 : confDir.entries[i].contents = <<" ", "h", "y", " ">>

\* every entry of the directory is yielded by the listing, with its metadata
Listed(dir) ==
    /\ dir.listable
    /\ \A i \in 1..Len(dir.entries) : dir.entries[i].entry_ok /\ dir.entries[i].meta_ok

\* the i-th of the files es cannot be turned into an entry of the mapping
FailsAt(es, i) ==
    \/ ~es[i].utf8
    \/ ~es[i].readable
    \/ ~AbsoluteUrl(TrimmedText(es[i].contents))
    \/ \E j \in 1..(i - 1) : es[j].name = es[i].name
HasFailure(es) == \E i \in 1..Len(es) : FailsAt(es, i)
FirstFailure(es) ==
    CHOOSE i \in 1..Len(es) : FailsAt(es, i) /\ \A j \in 1..(i - 1) : ~FailsAt(es, j)

\* C15: when one of the files the loader walks fails, the load fails with
\* the error of the first such file in the order walked and returns no
\* mapping: InvalidFilename for a name that is not text, InvalidUrl for a
\* text that is no absolute URL once trimmed, DuplicateFeed with the name
\* for a name met before; what comes after that file has no influence on
\* the result, and no unit is started.
C15_FailsOnFirstError ==
    (Loaded /\ Listed(confDir) /\ HasFailure(RegularEntries(confDir))) =>
        LET es == RegularEntries(confDir)
            k == FirstFailure(es)
            e == es[k]
            r == walk_conf_dir(confDir)
        IN  /\ ~r.ok /\ r.map = NoMap
            /\ fatal = "config" /\ feed_mappings = NoMap
            /\ \A n \in AllNames : pc[n] = "none"
            /\ ~e.utf8 => (r.err = "InvalidFilename" /\ r.name = e.name)
            /\ (e.utf8 /\ e.readable /\ ~AbsoluteUrl(TrimmedText(e.contents)))
                  => r.err = "InvalidUrl"
            /\ (e.utf8 /\ e.readable /\ AbsoluteUrl(TrimmedText(e.contents)))
                  => (r.err = "DuplicateFeed" /\ r.name = e.name)
            /\ r = walk_conf_dir(Dir(SubSeq(es, 1, k)))

\* the second file repeats the name of the first, and a third file that is
\* no URL comes after it: the load fails with DuplicateFeed for that name
C15_Witness ==
    /\ Loaded /\ Listed(confDir) /\ fatal = "config"
    /\ Len(RegularEntries(confDir)) = 3
    /\ FirstFailure(RegularEntries(confDir)) = 2
    /\ RegularEntries(confDir)[1].name = RegularEntries(confDir)[2].name
    /\ ~AbsoluteUrl(TrimmedText(RegularEntries(confDir)[3].contents))
    /\ walk_conf_dir(confDir).err = "DuplicateFeed"
    /\ feed_mappings = NoMap

\* the file system fails on some entry of the directory: the listing yields
\* an error for it, its metadata cannot be read, or it is a regular file
\* whose contents cannot be read
FsErrorIn(dir) ==
    \E i \in 1..Len(dir.entries) :
        LET e == dir.entries[i]
        IN  ~e.entry_ok \/ ~e.meta_ok \/ (e.ftype = "file" /\ ~e.readable)

\* nothing but the file system is wrong with the regular files
NoOtherFailure(dir) ==
    \A i \in 1..Len(RegularEntries(dir)) :
        LET e == RegularEntries(dir)[i]
        IN  /\ e.utf8
            /\ e.readable => AbsoluteUrl(TrimmedText(e.contents))
            /\ \A j \in 1..Len(RegularEntries(dir)) :
                  RegularEntries(dir)[j].name = e.name => j = i

\* C16: when the directory cannot be listed, or the file system fails on
\* one of its entries (the entry itself, its metadata, the contents of a
\* regular file) and nothing else is wrong with the files, the load fails
\* with IoErr and the run ends before any unit.
C16_FsErrorIsIoErr ==
    (Loaded /\ (~confDir.listable \/ (FsErrorIn(confDir) /\ NoOtherFailure(confDir)))) =>
        /\ walk_conf_dir(confDir).err = "IoErr"
        /\ fatal = "config"

\* the load succeeded although the listing failed on an entry, or the
\* metadata of an entry could not be read
C16_SkippedError ==
    /\ Loaded /\ fatal = "" /\ mainPc = "par"
    /\ \E i \in 1..Len(confDir.entries) :
          ~confDir.entries[i].entry_ok \/ ~confDir.entries[i].meta_ok
    /\ Feeds # {}

\* the load failed on a file whose text is no absolute URL once trimmed
FailedOnUrl ==
    /\ Loaded /\ Listed(confDir) /\ HasFailure(RegularEntries(confDir))
    /\ LET e == RegularEntries(confDir)[FirstFailure(RegularEntries(confDir))]
       IN  e.utf8 /\ e.readable /\ ~AbsoluteUrl(TrimmedText(e.contents))
BadUrlFile == RegularEntries(confDir)[FirstFailure(RegularEntries(confDir))]

StoppedAfterRead(f) ==
    /\ pc[f] = "done"
    /\ <<f, "fetch">> \notin ioLog /\ <<f, "write">> \notin ioLog
    /\ ~\E c \in calls : c.unit = f /\ c.op = "write"
    /\ new_feed[f] = NoDoc
    /\ cache[f] = cache0[f]

\* C18: a unit whose read of the cache file failed with anything but
\* NotFound has returned that error, has neither fetched nor written, and
\* its cache file is as it was; this is what happens whenever the file is
\* there and holds no feed document.
C18_UnreadableCacheStopsUnit ==
    \A f \in AllNames :
        /\ \A c \in calls :
              (c.unit = f /\ c.op = "read" /\ c.err \notin {"", "IoErr.NotFound"}) =>
                  (StoppedAfterRead(f) /\ result[f] = UnitErr(c.err))
        /\ (<<f, "read">> \in ioLog /\ cache0[f].present /\ ~CachedAtStart(f).ok) =>
              /\ StoppedAfterRead(f)
              /\ ~result[f].ok /\ result[f].err \in {"InvalidCache", "IoErr.Other"}

\* the file of "a" is there without a document and the feed of "a" answers
\* with a document: the unit returned InvalidCache and the file is as it was,
\* while the unit of "b" fetched and wrote
C18_Witness ==
    /\ Exited /\ fatal = "" /\ Feeds = {"a", "b"}
    /\ cache0["a"] = Truncated /\ Fetched("a").ok
    /\ result["a"] = UnitErr("InvalidCache")
    /\ StoppedAfterRead("a")
    /\ result["b"].ok /\ <<"b", "write">> \in ioLog
    /\ errlog = <<"a">>

\* the file is there and holds no document of a supported format
Unparsable(file) ==
    file.present /\ ~Channel_read_from(file.data).ok /\ ~Feed_read_from(file.data).ok

\* the unit of f ran in this invocation on an unparsable cache file
RanOnUnparsable(f) == Unparsable(cache0[f]) /\ <<f, "read">> \in ioLog

\* C19 as stated: a unit that runs on an unparsable cache file fails with
\* InvalidCache, contributes nothing and leaves the file as it is.
C19_Original_FailsWithInvalidCache ==
    \A f \in AllNames :
        RanOnUnparsable(f) =>
            /\ pc[f] = "done" /\ result[f] = UnitErr("InvalidCache")
            /\ cache[f] = cache0[f]

\* C19 amended: in every run a unit that runs on an unparsable cache file
\* fails, with InvalidCache when the file could be opened and with the
\* I/O error of the open otherwise; it contributes no links and writes
\* nothing. No step of the program, in this run or a later one, changes a
\* cache file that is unparsable: the feed stays failed.
C19_NoSelfRepair ==
    /\ [](\A f \in AllNames :
             RanOnUnparsable(f) =>
                 /\ pc[f] = "done" /\ ~result[f].ok /\ Returned(f) = {}
                 /\ \E c \in calls :
                       /\ c.unit = f /\ c.op = "read" /\ c.err = result[f].err
                       /\ c.err = IF c.io = "ok" THEN "InvalidCache" ELSE "IoErr.Other"
                 /\ <<f, "write">> \notin ioLog
                 /\ cache[f] = cache0[f])
    /\ [][\A f \in AllNames : Unparsable(cache[f]) => cache'[f] = cache[f]]_vars

\* the second run has ended: the file of a feed that answers with a
\* document was unparsable when the run began and still is, the unit
\* failed with InvalidCache and the feed was logged as failed
C19_Witness ==
    /\ run = 2 /\ Exited /\ fatal = ""
    /\ \E f \in Feeds :
          /\ RanOnUnparsable(f) /\ Fetched(f).ok
          /\ result[f] = UnitErr("InvalidCache")
          /\ Unparsable(cache[f])
          /\ \E i \in 1..Len(errlog) : errlog[i] = f

\* C20: a unit that returned links has written its cache file with success,
\* and the file holds every link it returned, then and until the run ends;
\* no link a unit returned in one run is returned by the unit of the same
\* feed in the next run.
C20_ReportOnce ==
    \A f \in AllNames :
        (UnitDone(f) /\ result[f].ok) =>
            /\ \E c \in calls : c.unit = f /\ c.op = "write" /\ c.err = ""
            /\ OnDisk(f).ok
            /\ Returned(f) \subseteq LinkStrings(OnDisk(f).doc)
            /\ Returned(f) \cap prevReturned[f] = {}
            /\ run = 1 => prevReturned[f] = {}

\* the feed of f gained a link before each of two runs: the first run
\* reported the one, the second run reports the other, and the cache file
\* holds both
C20_Witness ==
    /\ run = 2 /\ Exited /\ fatal = ""
    /\ \E f \in Feeds :
          /\ result[f].ok
          /\ prevReturned[f] # {} /\ Returned(f) # {}
          /\ prevReturned[f] \cup Returned(f) \subseteq LinkStrings(OnDisk(f).doc)
          /\ \E i \in 1..Len(stdout) : stdout[i] \in Returned(f)

====
